---- MODULE Spec2Model ----
(***************************************************************************)
(* Model of src/rss.js: the RSS 2.0 feed generator.                        *)
(*                                                                         *)
(* JavaScript strings are sequences of one-character strings.  JavaScript  *)
(* values are records [t, s, n]: t is the type tag, s the characters of a  *)
(* string, n the numeric value of a number or the time value of a Date.    *)
(* A thrown TypeError is the value TypeError, which every caller           *)
(* propagates.                                                             *)
(***************************************************************************)
EXTENDS Integers, Sequences, FiniteSets, TLC

VARIABLES pc, str, esc1, esc2, item, title, source, frag, items, options, now, k, frags, out

vars == <<pc, str, esc1, esc2, item, title, source, frag, items, options, now, k, frags, out>>

(***************************************************************************)
(* Bounds of the model.                                                    *)
(***************************************************************************)
MaxStrLen == 3
MaxOver == 2
MaxItems == 2

(***************************************************************************)
(* JavaScript values.                                                      *)
(***************************************************************************)
Chars(lit) == [i \in 1..Len(lit) |-> SubSeq(lit, i, i)]

Str(s) == [t |-> "string", s |-> s, n |-> 0]
Num(n) == [t |-> "number", s |-> <<>>, n |-> n]
DateOf(n) == [t |-> "date", s |-> <<>>, n |-> n]
Undefined == [t |-> "undefined", s |-> <<>>, n |-> 0]
Null == [t |-> "null", s |-> <<>>, n |-> 0]
InvalidDate == [t |-> "invalid date", s |-> <<>>, n |-> 0]
ObjectFunction == [t |-> "function", s |-> Chars("Object"), n |-> 0]
ObjectPrototype == [t |-> "object", s |-> <<>>, n |-> 0]
TypeError == [t |-> "TypeError", s |-> <<>>, n |-> 0]

\* ToBoolean: the falsy values are undefined, null, "", 0 and NaN.
Truthy(v) ==
  CASE v.t = "undefined" -> FALSE
    [] v.t = "null" -> FALSE
    [] v.t = "NaN" -> FALSE
    [] v.t = "string" -> v.s # <<>>
    [] v.t = "number" -> v.n # 0
    [] OTHER -> TRUE

RECURSIVE Digits(_)
Digits(n) == IF n < 10 THEN <<SubSeq("0123456789", n + 1, n + 1)>>
             ELSE Digits(n \div 10) \o <<SubSeq("0123456789", (n % 10) + 1, (n % 10) + 1)>>

\* The string a template literal's ${...} puts in for a value.
TemplateString(v) ==
  CASE v.t = "string" -> v.s
    [] v.t = "number" -> IF v.n < 0 THEN <<"-">> \o Digits(0 - v.n) ELSE Digits(v.n)
    [] v.t = "undefined" -> Chars("undefined")
    [] v.t = "null" -> Chars("null")
    [] v.t = "NaN" -> Chars("NaN")
    [] v.t = "function" -> Chars("function ") \o v.s \o Chars("() { [native code] }")
    [] OTHER -> Chars("[object Object]")

(***************************************************************************)
(* escapeXml, rss.js lines 11-19.                                          *)
(***************************************************************************)
\* The concatenation of a sequence of strings.
RECURSIVE Flatten(_)
Flatten(ss) ==
  IF ss = <<>> THEN <<>>
  ELSE IF Len(ss) = 1 THEN ss[1]
  ELSE LET h == Len(ss) \div 2
       IN  Flatten(SubSeq(ss, 1, h)) \o Flatten(SubSeq(ss, h + 1, Len(ss)))

\* String.prototype.replace with a one-character pattern and no g flag: the
\* first occurrence only.
ReplaceFirst(s, c, rep) ==
  Flatten([i \in 1..Len(s) |->
    IF s[i] = c /\ \A j \in 1..(i - 1) : s[j] # c THEN rep ELSE <<s[i]>>])

\* String.prototype.replace(/c/g, rep): every occurrence of the character.
ReplaceAll(s, c, rep) ==
  Flatten([i \in 1..Len(s) |-> IF s[i] = c THEN rep ELSE <<s[i]>>])

Amp == Chars("&amp;")
Lt == Chars("&lt;")
Gt == Chars("&gt;")
Quot == Chars("&quot;")
Apos == Chars("&apos;")

\* Mutant: an ampersand that already begins an entity is left alone.
EscapeChainKeepEntities(s) ==
  LET begins(i) == \E e \in {Amp, Lt, Gt, Quot, Apos} :
                     i + Len(e) - 1 <= Len(s) /\ SubSeq(s, i, i + Len(e) - 1) = e
      amped == Flatten([i \in 1..Len(s) |->
                 IF s[i] = "&" /\ ~begins(i) THEN Amp ELSE <<s[i]>>])
  IN  ReplaceAll(ReplaceAll(ReplaceAll(ReplaceAll(amped,
        "<", Lt), ">", Gt), "\"", Quot), "'", Apos)

\* Mutant: the regular expressions without their g flag.
EscapeChainFirstOnly(s) ==
  ReplaceFirst(ReplaceFirst(ReplaceFirst(ReplaceFirst(ReplaceFirst(s,
    "&", Amp), "<", Lt), ">", Gt), "\"", Quot), "'", Apos)

\* Lines 13-18: the five replacements, the ampersand first.
EscapeChain(s) ==
  ReplaceAll(ReplaceAll(ReplaceAll(ReplaceAll(ReplaceAll(s,
    "&", Amp), "<", Lt), ">", Gt), "\"", Quot), "'", Apos)

escapeXml(v) ==
  IF ~Truthy(v) THEN Str(<<>>)
  ELSE IF v.t = "string" THEN Str(EscapeChain(v.s))
  ELSE TypeError   \* str.replace is not a function

(***************************************************************************)
(* Inputs of the escaper.                                                  *)
(***************************************************************************)
Reserved == {"&", "<", ">", "\"", "'"}
EscAlphabet == Reserved \cup {"a", ";"}

StringsUpTo(alphabet, n) == UNION {[1..m -> alphabet] : m \in 0..n}

EscInputs == {Null, Undefined} \cup {Str(s) : s \in StringsUpTo(EscAlphabet, MaxStrLen)}

(***************************************************************************)
(* toRfc822, rss.js lines 26-29.  A Date's time value is kept in whole     *)
(* seconds since the epoch: toUTCString prints no finer unit.              *)
(***************************************************************************)
DigitChars == Chars("0123456789")
IsDigit(c) == \E d \in 1..10 : DigitChars[d] = c
DigitVal(c) == (CHOOSE d \in 1..10 : DigitChars[d] = c) - 1

IsLeap(y) == (y % 4 = 0 /\ y % 100 # 0) \/ y % 400 = 0
DaysInMonth(y, m) ==
  IF m = 2 THEN (IF IsLeap(y) THEN 29 ELSE 28)
  ELSE IF m \in {4, 6, 9, 11} THEN 30 ELSE 31

\* Days from 1970-01-01 to the civil date y-m-d (proleptic Gregorian).
DaysFromCivil(y, m, d) ==
  LET yy == IF m <= 2 THEN y - 1 ELSE y
      era == yy \div 400
      yoe == yy - era * 400
      mp == IF m > 2 THEN m - 3 ELSE m + 9
      doy == (153 * mp + 2) \div 5 + d - 1
      doe == yoe * 365 + yoe \div 4 - yoe \div 100 + doy
  IN  era * 146097 + doe - 719468

\* The civil date of a day number, as <<year, month, day>>.
CivilFromDays(days) ==
  LET z == days + 719468
      era == z \div 146097
      doe == z - era * 146097
      yoe == (doe - doe \div 1460 + doe \div 36524 - doe \div 146096) \div 365
      doy == doe - (365 * yoe + yoe \div 4 - yoe \div 100)
      mp == (5 * doy + 2) \div 153
      d == doy - (153 * mp + 2) \div 5 + 1
      m == IF mp < 10 THEN mp + 3 ELSE mp - 9
      y == yoe + era * 400 + (IF m <= 2 THEN 1 ELSE 0)
  IN  <<y, m, d>>

\* Date.parse of a string: the date-only form YYYY-MM-DD is midnight UTC of
\* that day; the strings the model draws that are not of this form are not
\* dates in any format.
DateParse(s) ==
  IF /\ Len(s) = 10
     /\ s[5] = "-" /\ s[8] = "-"
     /\ \A i \in {1, 2, 3, 4, 6, 7, 9, 10} : IsDigit(s[i])
  THEN LET y == 1000 * DigitVal(s[1]) + 100 * DigitVal(s[2])
                + 10 * DigitVal(s[3]) + DigitVal(s[4])
           m == 10 * DigitVal(s[6]) + DigitVal(s[7])
           d == 10 * DigitVal(s[9]) + DigitVal(s[10])
       IN  IF m \in 1..12 /\ d \in 1..DaysInMonth(y, m)
           THEN DateOf(DaysFromCivil(y, m, d) * 86400)
           ELSE InvalidDate
  ELSE InvalidDate

\* new Date(value)
NewDate(v) ==
  CASE v.t = "date" -> v
    [] v.t = "invalid date" -> v
    [] v.t = "string" -> DateParse(v.s)
    [] v.t = "null" -> DateOf(0)
    [] OTHER -> InvalidDate

DayNames == <<"Thu", "Fri", "Sat", "Sun", "Mon", "Tue", "Wed">>
MonthNames == <<"Jan", "Feb", "Mar", "Apr", "May", "Jun",
                "Jul", "Aug", "Sep", "Oct", "Nov", "Dec">>

Pad2(n) == IF n < 10 THEN <<"0">> \o Digits(n) ELSE Digits(n)
Pad4(n) == IF n < 10 THEN Chars("000") \o Digits(n)
           ELSE IF n < 100 THEN Chars("00") \o Digits(n)
           ELSE IF n < 1000 THEN Chars("0") \o Digits(n)
           ELSE Digits(n)

\* Date.prototype.toUTCString
ToUTCString(d) ==
  IF d.t = "invalid date" THEN Chars("Invalid Date")
  ELSE LET days == d.n \div 86400
           secs == d.n % 86400
           ymd == CivilFromDays(days)
       IN  Chars(DayNames[(days % 7) + 1]) \o Chars(", ") \o Pad2(ymd[3])
           \o Chars(" ") \o Chars(MonthNames[ymd[2]]) \o Chars(" ") \o Pad4(ymd[1])
           \o Chars(" ") \o Pad2(secs \div 3600) \o Chars(":")
           \o Pad2((secs % 3600) \div 60) \o Chars(":") \o Pad2(secs % 60)
           \o Chars(" GMT")

toRfc822(date) == Str(ToUTCString(NewDate(date)))

(***************************************************************************)
(* getItemTitle, rss.js lines 36-46.                                       *)
(***************************************************************************)
TitleMax == 80
TitleCut == 77

Whitespace == {" ", "\t", "\n"}

\* text.replace(/\s+/g, ' '): every maximal run of whitespace becomes one
\* space (the first character of the run is replaced, the rest of it goes).
CollapseWs(s) ==
  LET marked == [i \in 1..Len(s) |->
                   IF s[i] \notin Whitespace THEN s[i]
                   ELSE IF i > 1 /\ s[i - 1] \in Whitespace THEN "rest of run"
                   ELSE " "]
  IN  SelectSeq(marked, LAMBDA c : c # "rest of run")

\* String.prototype.trim: from the first to the last character that is not
\* whitespace.
Trim(s) ==
  LET inked == {i \in 1..Len(s) : s[i] \notin Whitespace}
  IN  IF inked = {} THEN <<>>
      ELSE SubSeq(s, CHOOSE i \in inked : \A j \in inked : i <= j,
                     CHOOSE i \in inked : \A j \in inked : j <= i)

\* String.prototype.substring(0, n)
Substring0(s, n) == SubSeq(s, 1, IF n < Len(s) THEN n ELSE Len(s))

\* Mutant: the text cut at the limit itself, before the ellipsis is added.
getItemTitleCutAtMax(it) ==
  IF Truthy(it.content)
  THEN LET text == Trim(CollapseWs(it.content.s))
       IN  IF Len(text) > TitleMax
           THEN Substring0(text, TitleMax) \o Chars("...")
           ELSE text
  ELSE TemplateString(it.source) \o Chars(" post by ") \o TemplateString(it.author)

getItemTitle(it) ==
  IF Truthy(it.content)
  THEN LET text == Trim(CollapseWs(it.content.s))
       IN  IF Len(text) > TitleMax
           THEN Substring0(text, TitleCut) \o Chars("...")
           ELSE text
  ELSE TemplateString(it.source) \o Chars(" post by ") \o TemplateString(it.author)

(***************************************************************************)
(* getSourceName, rss.js lines 53-60.                                      *)
(***************************************************************************)
\* The properties every object literal inherits from Object.prototype.
PrototypeFunctions == {"constructor", "toString", "valueOf", "hasOwnProperty",
                       "isPrototypeOf", "propertyIsEnumerable", "toLocaleString"}

\* names[source]: the own properties of the literal, then its prototype chain.
NamesLookup(key) ==
  CASE key = Chars("twitter") -> Str(Chars("Twitter/X"))
    [] key = Chars("reddit") -> Str(Chars("Reddit"))
    [] key = Chars("github") -> Str(Chars("GitHub"))
    [] key = Chars("constructor") -> ObjectFunction
    [] key = Chars("__proto__") -> ObjectPrototype
    [] \E f \in PrototypeFunctions \ {"constructor"} : key = Chars(f) ->
         [t |-> "function", s |-> key, n |-> 0]
    [] OTHER -> Undefined

getSourceName(src) ==
  IF Truthy(NamesLookup(src.s)) THEN NamesLookup(src.s) ELSE src

(***************************************************************************)
(* generateItem, rss.js lines 67-108.                                      *)
(***************************************************************************)
\* A value that is thrown on the way makes the whole call throw.
Thrown(vs) == \E v \in vs : v = TypeError

\* The metadata object of an item; a missing field is undefined.
Metadata(l, r, p) ==
  [t |-> "object", s |-> <<>>, n |-> 0, likes |-> l, retweets |-> r, replies |-> p]

\* x || 0
OrZero(v) == IF Truthy(v) THEN v ELSE Num(0)

\* Mutant: the statistics added for any source that has metadata.
TwitterBlockAnySource(it) ==
  IF Truthy(it.metadata)
  THEN Chars("<hr/>") \o Chars("<p><small>")
       \o Chars("Likes: ") \o TemplateString(OrZero(it.metadata.likes)) \o Chars(" | ")
       \o Chars("Retweets: ") \o TemplateString(OrZero(it.metadata.retweets)) \o Chars(" | ")
       \o Chars("Replies: ") \o TemplateString(OrZero(it.metadata.replies))
       \o Chars("</small></p>")
  ELSE <<>>

\* Lines 86-94: the statistics of a Twitter item.
TwitterBlock(it) ==
  IF it.source = Str(Chars("twitter")) /\ Truthy(it.metadata)
  THEN Chars("<hr/>") \o Chars("<p><small>")
       \o Chars("Likes: ") \o TemplateString(OrZero(it.metadata.likes)) \o Chars(" | ")
       \o Chars("Retweets: ") \o TemplateString(OrZero(it.metadata.retweets)) \o Chars(" | ")
       \o Chars("Replies: ") \o TemplateString(OrZero(it.metadata.replies))
       \o Chars("</small></p>")
  ELSE <<>>

\* Mutant: the default given to a missing category only, not to an empty one.
CategoryTextEmptyKept(it) ==
  IF it.category.t \notin {"undefined", "null"}
  THEN escapeXml(it.category) ELSE Str(Chars("uncategorized"))

\* Lines 72 and 80-82: the category element's text and the Category paragraph.
CategoryText(it) ==
  IF Truthy(it.category) THEN escapeXml(it.category) ELSE Str(Chars("uncategorized"))

CategoryParagraph(it) ==
  IF Truthy(it.category)
  THEN Chars("<p><strong>Category:</strong> ") \o TemplateString(it.category) \o Chars("</p>")
  ELSE <<>>

\* Lines 77-96: the description, a CDATA section holding the fields as given.
Description(it, source_) ==
  Chars("<![CDATA[")
  \o Chars("<p><strong>Author:</strong> ") \o TemplateString(it.author) \o Chars("</p>")
  \o Chars("<p><strong>Source:</strong> ") \o TemplateString(source_) \o Chars("</p>")
  \o CategoryParagraph(it)
  \o Chars("<hr/>")
  \o Chars("<p>")
  \o TemplateString(IF Truthy(it.content) THEN it.content ELSE Str(<<>>))
  \o Chars("</p>")
  \o TwitterBlock(it)
  \o Chars("]]>")

generateItem(it) ==
  LET title_ == escapeXml(Str(getItemTitle(it)))
      link == escapeXml(it.url)
      author == escapeXml(it.author)
      source_ == getSourceName(it.source)
      category == CategoryText(it)
      pubDate == toRfc822(it.timestamp)
      guid == escapeXml(it.id)
      description == Description(it, source_)
      sourceText == escapeXml(source_)
  IN  IF Thrown({title_, link, author, category, guid, sourceText}) THEN TypeError
      ELSE Str(
        Chars("    <item>\n      <title>") \o title_.s
        \o Chars("</title>\n      <link>") \o link.s
        \o Chars("</link>\n      <description>") \o description
        \o Chars("</description>\n      <author>") \o author.s
        \o Chars("</author>\n      <category>") \o category.s
        \o Chars("</category>\n      <pubDate>") \o pubDate.s
        \o Chars("</pubDate>\n      <guid isPermaLink=\"false\">") \o guid.s
        \o Chars("</guid>\n      <source url=\"") \o link.s \o Chars("\">") \o sourceText.s
        \o Chars("</source>\n    </item>"))

(***************************************************************************)
(* generateRssFeed, rss.js lines 119-140.                                  *)
(***************************************************************************)
DefaultTitle == Chars("Factory AI Social Feed")
DefaultLink == Chars("https://factory.ai")
DefaultDescription == Chars("Aggregated mentions from Twitter, Reddit, and GitHub")

\* options = {}: an omitted argument is the empty object.
NoOptions == [title |-> Undefined, link |-> Undefined, description |-> Undefined]

\* Mutant: x ?? dflt, the default for undefined and null only.
OrDefaultNullish(v, dflt) == IF v.t \in {"undefined", "null"} THEN Str(dflt) ELSE v

\* x || dflt
OrDefault(v, dflt) == IF Truthy(v) THEN v ELSE Str(dflt)

\* Array.prototype.join('\n')
RECURSIVE Join(_)
Join(fs) ==
  IF fs = <<>> THEN <<>>
  ELSE IF Len(fs) = 1 THEN fs[1]
  ELSE fs[1] \o <<"\n">> \o Join(Tail(fs))

\* Lines 127-139: the document around the items.
Envelope(title_, link, description, lastBuildDate, itemsXml) ==
  Chars("<?xml version=\"1.0\" encoding=\"UTF-8\"?>\n")
  \o Chars("<rss version=\"2.0\" xmlns:atom=\"http://www.w3.org/2005/Atom\">\n")
  \o Chars("  <channel>\n")
  \o Chars("    <title>") \o title_ \o Chars("</title>\n")
  \o Chars("    <link>") \o link \o Chars("</link>\n")
  \o Chars("    <description>") \o description \o Chars("</description>\n")
  \o Chars("    <language>en-us</language>\n")
  \o Chars("    <lastBuildDate>") \o lastBuildDate \o Chars("</lastBuildDate>\n")
  \o Chars("    <generator>Factory AI Feed Scraper</generator>\n")
  \o Chars("    <ttl>10</ttl>\n")
  \o itemsXml \o Chars("\n")
  \o Chars("  </channel>\n")
  \o Chars("</rss>")

(***************************************************************************)
(* Inputs.                                                                 *)
(***************************************************************************)
Repeat(c, n) == [i \in 1..n |-> c]

Sources == {Str(Chars(x)) : x \in {"twitter", "reddit", "github", "mastodon",
                                   "Twitter", "a&b", "constructor", "__proto__",
                                   "toString"}}

Metadatas == {Undefined, Null,
              Metadata(Undefined, Undefined, Undefined),
              Metadata(Num(5), Undefined, Undefined),
              Metadata(Num(0), Num(12), Num(3)),
              Metadata(Undefined, Num(7), Num(140))}

BaseItem ==
  [id |-> Str(Chars("t:1")), url |-> Str(Chars("https://x.test/1?a=1&b=2")),
   author |-> Str(Chars("ann")), source |-> Str(Chars("twitter")),
   category |-> Undefined, content |-> Undefined,
   timestamp |-> DateOf(1727881445), metadata |-> Undefined]

\* Items that vary every field the item renderer branches on.
ItemInputs ==
  [id : {Str(Chars("t:1"))},
   url : {Str(Chars("https://x.test/1?a=1&b=2"))},
   author : {Str(Chars("ann")), Str(Chars("<b>&"))},
   source : Sources,
   category : {Undefined, Str(<<>>), Str(Chars("news")), Str(Chars("R&D <x>"))},
   content : {Undefined, Str(<<>>), Str(Chars("Check out our new release!")),
              Str(Chars(" a \n\t b "))},
   timestamp : {DateOf(1727881445), Str(Chars("x"))},   \* a Date, and no date
   metadata : Metadatas]

\* Contents around the title limit: whitespace before, inside and after a
\* run of n characters.
TitleContents ==
  {Str(lead \o Repeat("x", n) \o mid \o tail) :
     lead \in {<<>>, <<" ">>, <<"\n", "\t">>},
     n \in {0, 1} \cup ((TitleMax - 4)..(TitleMax + MaxOver)),
     mid \in {<<>>, <<" ">>, <<" ", "\n", "y">>, <<"\t", "\t", "&", "y">>},
     tail \in {<<>>, <<" ">>, <<"z", "\n">>}}

TitleItems == {[BaseItem EXCEPT !.content = c] : c \in TitleContents}

\* The items a feed is made of.
FeedItems ==
  { [BaseItem EXCEPT !.content = Str(Chars("5 > 3 & 2 < 4")),
                     !.metadata = Metadata(Num(5), Undefined, Undefined)],
    [BaseItem EXCEPT !.id = Str(Chars("r:2")), !.source = Str(Chars("reddit")),
                     !.category = Str(Chars("R&D"))],
    [BaseItem EXCEPT !.id = Str(Chars("g:3")), !.source = Str(Chars("github")),
                     !.content = Str(Chars("fix")), !.timestamp = Str(Chars("x"))],
    [BaseItem EXCEPT !.id = Str(Chars("m:4")), !.source = Str(Chars("mastodon")),
                     !.content = Str(Chars("a ]]> b")),
                     !.timestamp = Str(Chars("2024-02-29"))],
    [BaseItem EXCEPT !.id = Str(Chars("t:5")), !.author = Str(Chars("]]><a>")),
                     !.content = Str(Chars("ok"))],
    [BaseItem EXCEPT !.id = Str(Chars("c:6")), !.source = Str(Chars("constructor"))] }

ItemLists == UNION {[1..n -> FeedItems] : n \in 0..MaxItems}

\* undefined is the omitted argument; a field of the object may be missing,
\* empty or given.
OptionInputs ==
  {Undefined} \cup
  [title : {Undefined, Str(<<>>), Str(Chars("Q&A <feed>"))},
   link : {Undefined, Str(Chars("https://q.test/?a=1&b='2'"))},
   description : {Undefined, Str(Chars("All \"mentions\""))}]

Nows == {DateOf(0), DateOf(1727881445)}

(***************************************************************************)
(* The escaper called on its own (it is exported), once and then on its    *)
(* own result.                                                             *)
(***************************************************************************)
InitEscape ==
  /\ pc = "escape"
  /\ str \in EscInputs
  /\ esc1 = Undefined /\ esc2 = Undefined
  /\ item = BaseItem /\ title = <<>> /\ source = Undefined /\ frag = Undefined
  /\ items = <<>> /\ options = Undefined /\ now = DateOf(0)
  /\ k = 1 /\ frags = <<>> /\ out = Undefined

EscapeOnce ==
  /\ pc = "escape"
  /\ esc1' = escapeXml(str)
  /\ pc' = "escaped"
  /\ UNCHANGED <<str, esc2, item, title, source, frag, items, options, now, k, frags, out>>

EscapeAgain ==
  /\ pc = "escaped"
  /\ esc2' = escapeXml(esc1)
  /\ pc' = "escaped twice"
  /\ UNCHANGED <<str, esc1, item, title, source, frag, items, options, now, k, frags, out>>

NextEscape == EscapeOnce \/ EscapeAgain

SpecEscape == InitEscape /\ [][NextEscape]_vars

(***************************************************************************)
(* One item rendered: line 68, line 71, then the whole of generateItem.    *)
(***************************************************************************)
InitItem ==
  /\ pc = "item"
  /\ item \in ItemInputs \cup TitleItems
  /\ title = <<>> /\ source = Undefined /\ frag = Undefined
  /\ str = Undefined /\ esc1 = Undefined /\ esc2 = Undefined
  /\ items = <<>> /\ options = Undefined /\ now = DateOf(0)
  /\ k = 1 /\ frags = <<>> /\ out = Undefined

GetItemTitle ==
  /\ pc = "item"
  /\ title' = getItemTitle(item)
  /\ pc' = "titled"
  /\ UNCHANGED <<str, esc1, esc2, item, source, frag, items, options, now, k, frags, out>>

GetSourceName ==
  /\ pc = "titled"
  /\ source' = getSourceName(item.source)
  /\ pc' = "named"
  /\ UNCHANGED <<str, esc1, esc2, item, title, frag, items, options, now, k, frags, out>>

GenerateItem ==
  /\ pc = "named"
  /\ frag' = generateItem(item)
  /\ pc' = IF generateItem(item) = TypeError THEN "item thrown" ELSE "rendered"
  /\ UNCHANGED <<str, esc1, esc2, item, title, source, items, options, now, k, frags, out>>

NextItem == GetItemTitle \/ GetSourceName \/ GenerateItem

SpecItem == InitItem /\ [][NextItem]_vars

(***************************************************************************)
(* generateRssFeed: the items mapped in order (line 125), then the         *)
(* document returned (lines 127-139).  An item that throws ends the call.  *)
(***************************************************************************)
Init ==
  /\ pc = "feed"
  /\ items \in ItemLists
  /\ options \in OptionInputs
  /\ now \in Nows
  /\ k = 1 /\ frags = <<>> /\ out = Undefined
  /\ str = Undefined /\ esc1 = Undefined /\ esc2 = Undefined
  /\ item = BaseItem /\ title = <<>> /\ source = Undefined /\ frag = Undefined

\* Mutant: a fragment equal to an earlier one is left out.
MapStepDedup(fs, f) ==
  IF \E i \in 1..Len(fs) : fs[i] = f THEN fs ELSE Append(fs, f)

\* Array.prototype.map: the result of the k-th call is the k-th element.
MapStep(fs, f) == Append(fs, f)

MapItem ==
  /\ pc = "feed"
  /\ k <= Len(items)
  /\ IF generateItem(items[k]) = TypeError
     THEN /\ pc' = "thrown"
          /\ UNCHANGED <<k, frags>>
     ELSE /\ frags' = MapStep(frags, generateItem(items[k]).s)
          /\ k' = k + 1
          /\ pc' = pc
  /\ UNCHANGED <<str, esc1, esc2, item, title, source, frag, items, options, now, out>>

generateRssFeed(opts, fragments, date) ==
  LET o == IF opts = Undefined THEN NoOptions ELSE opts
      title_ == escapeXml(OrDefault(o.title, DefaultTitle))
      link == escapeXml(OrDefault(o.link, DefaultLink))
      description == escapeXml(OrDefault(o.description, DefaultDescription))
      lastBuildDate == toRfc822(date)
      itemsXml == Join(fragments)
  IN  Envelope(title_.s, link.s, description.s, lastBuildDate.s, itemsXml)

Return ==
  /\ pc = "feed"
  /\ k > Len(items)
  /\ out' = Str(generateRssFeed(options, frags, now))
  /\ pc' = "done"
  /\ UNCHANGED <<str, esc1, esc2, item, title, source, frag, items, options, now, k, frags>>

Next == MapItem \/ Return

Spec == Init /\ [][Next]_vars

(***************************************************************************)
(* Operators the properties are stated with.                               *)
(***************************************************************************)
StartsWith(s, p) == Len(p) <= Len(s) /\ SubSeq(s, 1, Len(p)) = p
EndsWith(s, p) == Len(p) <= Len(s) /\ SubSeq(s, Len(s) - Len(p) + 1, Len(s)) = p
Occurrences(s, p) == {i \in 1..(Len(s) - Len(p) + 1) : SubSeq(s, i, i + Len(p) - 1) = p}
Contains(s, p) == Occurrences(s, p) # {}
Min(S) == CHOOSE i \in S : \A j \in S : i <= j
Max(S) == CHOOSE i \in S : \A j \in S : j <= i

\* The entity a reserved character stands for; any other character itself.
EntityOf(c) ==
  CASE c = "&" -> <<"&", "a", "m", "p", ";">>
    [] c = "<" -> <<"&", "l", "t", ";">>
    [] c = ">" -> <<"&", "g", "t", ";">>
    [] c = "\"" -> <<"&", "q", "u", "o", "t", ";">>
    [] c = "'" -> <<"&", "a", "p", "o", "s", ";">>
    [] OTHER -> <<c>>

\* A string with each character replaced, in place, by its entity.
Escaped(s) == Flatten([i \in 1..Len(s) |-> EntityOf(s[i])])

Entities == {EntityOf(c) : c \in Reserved}
BeginsEntity(s, i) ==
  \E e \in Entities : i + Len(e) - 1 <= Len(s) /\ SubSeq(s, i, i + Len(e) - 1) = e

ReservedIn(s) == {i \in 1..Len(s) : s[i] \in Reserved}

\* C3: escapeXml returns "" for null, undefined and "", and for any other
\* string the input with every reserved character replaced in place by its
\* entity and nothing else changed; its result holds no raw < > " ' and every
\* & in it begins one of the five entities.
C3_EscapeXml ==
  pc \in {"escaped", "escaped twice"} =>
    /\ str \in {Null, Undefined, Str(<<>>)} => esc1 = Str(<<>>)
    /\ str.t = "string" => esc1 = Str(Escaped(str.s))
    /\ \A i \in 1..Len(esc1.s) :
         /\ esc1.s[i] \notin {"<", ">", "\"", "'"}
         /\ esc1.s[i] = "&" => BeginsEntity(esc1.s, i)

C3_Witness ==
  /\ pc = "escaped"
  /\ str = Str(<<"&", "<", "&">>)
  /\ esc1 = Str(Chars("&amp;&lt;&amp;"))

\* C10: escaping twice gives the result of escaping once exactly when the
\* string holds no reserved character; otherwise the second application
\* rewrites every & the first one introduced as &amp;.
C10_NotIdempotent ==
  (pc = "escaped twice" /\ str.t = "string") =>
    /\ (esc2 = esc1) <=> (ReservedIn(str.s) = {})
    /\ Len(esc2.s) = Len(esc1.s) + 4 * Cardinality(ReservedIn(str.s))
    /\ Cardinality(Occurrences(esc2.s, Chars("&amp;"))) = Cardinality(ReservedIn(str.s))
    /\ SelectSeq(esc2.s, LAMBDA c : c = "&") = SelectSeq(esc1.s, LAMBDA c : c = "&")

C10_Witness ==
  /\ pc = "escaped twice"
  /\ str = Str(<<"a", "<", "\"">>)
  /\ esc1 = Str(Chars("a&lt;&quot;"))
  /\ esc2 = Str(Chars("a&amp;lt;&amp;quot;"))

NonWs(s) == SelectSeq(s, LAMBDA c : c \notin Whitespace)

ElementText(s, name) ==
  LET open == <<"<">> \o name \o <<">">>
      close == <<"<", "/">> \o name \o <<">">>
      from == Max(Occurrences(s, open)) + Len(open)
      to == Min({i \in Occurrences(s, close) : i >= from}) - 1
  IN  SubSeq(s, from, to)

CategoryLabel == Chars("<p><strong>Category:</strong> ")

\* C5 as stated: the category element is the escaped category whenever a
\* category is given, the empty string included, and "uncategorized" only
\* when none is given; the description has the Category paragraph exactly
\* when a category is given.
C5_CategoryAsStated ==
  pc = "rendered" =>
    IF item.category # Undefined
    THEN /\ ElementText(frag.s, Chars("category")) = Escaped(item.category.s)
         /\ Contains(frag.s, CategoryLabel \o item.category.s \o Chars("</p>"))
    ELSE /\ ElementText(frag.s, Chars("category")) = Chars("uncategorized")
         /\ ~Contains(frag.s, CategoryLabel)

\* C5 amended: the category element is the escaped category when the
\* category is a non-empty string, and "uncategorized" when it is missing or
\* the empty string; the description has the Category paragraph exactly when
\* the category is a non-empty string.
C5_Category ==
  pc = "rendered" =>
    IF item.category \notin {Undefined, Str(<<>>)}
    THEN /\ ElementText(frag.s, Chars("category")) = Escaped(item.category.s)
         /\ Contains(frag.s, CategoryLabel \o item.category.s \o Chars("</p><hr/>"))
    ELSE /\ ElementText(frag.s, Chars("category")) = Chars("uncategorized")
         /\ ~Contains(frag.s, CategoryLabel)

C5_Witness ==
  /\ pc = "rendered"
  /\ item.category = Str(<<>>)
  /\ ElementText(frag.s, Chars("category")) = Chars("uncategorized")
  /\ ~Contains(frag.s, CategoryLabel)

\* The display name the source mapper is to give.
DisplayName(s) ==
  CASE s = Chars("twitter") -> Chars("Twitter/X")
    [] s = Chars("reddit") -> Chars("Reddit")
    [] s = Chars("github") -> Chars("GitHub")
    [] OTHER -> s

\* C6: getSourceName gives the display names of twitter, reddit and github
\* and any other string unchanged, and never fails, so that the source
\* element of every rendered item holds the escaped name.
C6_SourceName ==
  /\ pc \in {"named", "rendered", "item thrown"} =>
       source = Str(DisplayName(item.source.s))
  /\ pc # "item thrown"
  /\ pc = "rendered" =>
       ElementText(frag.s, Chars("source")) = Escaped(DisplayName(item.source.s))

\* The number a statistics field shows: the field's value, 0 when missing.
Shown(v) == IF v = Undefined THEN <<"0">> ELSE Digits(v.n)

StatsLine(m) ==
  Chars("Likes: ") \o Shown(m.likes) \o Chars(" | Retweets: ") \o Shown(m.retweets)
  \o Chars(" | Replies: ") \o Shown(m.replies)

\* C7: the description holds the statistics line, after a second horizontal
\* rule, exactly when the source is "twitter" and metadata is given; each
\* number is the field's value, or 0 for a missing field.
C7_TwitterStats ==
  pc = "rendered" =>
    LET given == item.source = Str(Chars("twitter")) /\ item.metadata \notin {Undefined, Null}
        desc == ElementText(frag.s, Chars("description"))
    IN  /\ given <=> Contains(desc, Chars("Likes: "))
        /\ given <=> Contains(desc, Chars("Retweets: "))
        /\ given <=> Contains(desc, Chars("Replies: "))
        /\ Cardinality(Occurrences(desc, Chars("<hr/>"))) = IF given THEN 2 ELSE 1
        /\ given => EndsWith(desc, Chars("</p><hr/><p><small>") \o StatsLine(item.metadata)
                                   \o Chars("</small></p>]]>"))

C7_Witness ==
  /\ pc = "rendered"
  /\ item.source = Str(Chars("twitter"))
  /\ item.metadata = Metadata(Num(5), Undefined, Undefined)
  /\ Contains(frag.s, Chars("<hr/><p><small>Likes: 5 | Retweets: 0 | Replies: 0</small></p>]]>"))

\* The text of the first element of that name in a document.
FirstElementText(s, name) ==
  LET open == <<"<">> \o name \o <<">">>
      close == <<"<", "/">> \o name \o <<">">>
      from == Min(Occurrences(s, open)) + Len(open)
      to == Min({i \in Occurrences(s, close) : i >= from}) - 1
  IN  SubSeq(s, from, to)

ItemOpen == Chars("    <item>\n")
ChannelClose == Chars("\n  </channel>\n</rss>")

\* The fragments of a list, each followed by a newline but the last.
Fragments(its) ==
  Flatten([i \in 1..Len(its) |->
    generateItem(its[i]).s \o (IF i < Len(its) THEN <<"\n">> ELSE <<>>)])

\* C2: the returned document holds one fragment for each item of the list,
\* the k-th being the k-th item rendered, in the order of the list, with
\* nothing left out or merged, and a single newline between fragments.
C2_ItemOrder ==
  pc = "done" =>
    /\ Cardinality(Occurrences(out.s, ItemOpen)) = Len(items)
    /\ EndsWith(out.s, Chars("<ttl>10</ttl>\n") \o Fragments(items) \o ChannelClose)
    /\ Len(frags) = Len(items)
    /\ \A i \in 1..Len(items) : frags[i] = generateItem(items[i]).s

C2_Witness ==
  /\ pc = "done"
  /\ Len(items) = 2
  /\ items[1] = items[2]
  /\ Cardinality(Occurrences(out.s, ItemOpen)) = 2

Given(o, f) == o # Undefined /\ o[f] \notin {Undefined, Null, Str(<<>>)}

\* C8: each of the channel's title, link and description is the escaped
\* option when the option is given and truthy and the escaped default
\* otherwise, each on its own; with no items the channel holds these, the
\* fixed language, generator and ttl elements and no item.
C8_ChannelDefaults ==
  pc = "done" =>
    /\ FirstElementText(out.s, Chars("title")) =
         Escaped(IF Given(options, "title") THEN options.title.s
                 ELSE Chars("Factory AI Social Feed"))
    /\ FirstElementText(out.s, Chars("link")) =
         Escaped(IF Given(options, "link") THEN options.link.s
                 ELSE Chars("https://factory.ai"))
    /\ FirstElementText(out.s, Chars("description")) =
         Escaped(IF Given(options, "description") THEN options.description.s
                 ELSE Chars("Aggregated mentions from Twitter, Reddit, and GitHub"))
    /\ Contains(out.s, Chars("<language>en-us</language>"))
    /\ Contains(out.s, Chars("<generator>Factory AI Feed Scraper</generator>"))
    /\ Contains(out.s, Chars("<ttl>10</ttl>"))
    /\ items = <<>> => ~Contains(out.s, Chars("<item>"))

C8_Witness ==
  /\ pc = "done"
  /\ items = <<>>
  /\ options # Undefined
  /\ options.title = Str(<<>>) /\ options.link # Undefined /\ options.description = Undefined
  /\ FirstElementText(out.s, Chars("title")) = Chars("Factory AI Social Feed")
  /\ FirstElementText(out.s, Chars("link")) = Chars("https://q.test/?a=1&amp;b=&apos;2&apos;")
  /\ ~Contains(out.s, Chars("<item>"))

(***************************************************************************)
(* Well-formedness of a document, as an XML parser decides it: CDATA       *)
(* sections run to the first terminator, every < opens a tag that the next *)
(* > closes, tags nest by name, and text and attribute values hold no raw  *)
(* reserved character.                                                     *)
(***************************************************************************)
CDataOpen == Chars("<![CDATA[")
CDataClose == Chars("]]>")

\* The sections of a document, each from its opener to the first terminator
\* after it, as <<start, end>> index pairs; an unterminated one ends at 0.
RECURSIVE CDataSpans(_, _)
CDataSpans(s, from) ==
  LET starts == {i \in Occurrences(s, CDataOpen) : i >= from}
  IN  IF starts = {} THEN <<>>
      ELSE LET i == Min(starts)
               ends == {j \in Occurrences(s, CDataClose) : j >= i + Len(CDataOpen)}
           IN  IF ends = {} THEN <<<<i, 0>>>>
               ELSE <<<<i, Min(ends) + 2>>>> \o CDataSpans(s, Min(ends) + 3)

CDataSections(s) ==
  LET spans == CDataSpans(s, 1)
  IN  [j \in 1..Len(spans) |->
         SubSeq(s, spans[j][1], IF spans[j][2] = 0 THEN Len(s) ELSE spans[j][2])]

\* The document outside its CDATA sections.
OutsideCData(s) ==
  LET spans == CDataSpans(s, 1)
      inside(i) == \E j \in 1..Len(spans) :
                     spans[j][1] <= i /\ (spans[j][2] = 0 \/ i <= spans[j][2])
  IN  [i \in 1..Len(s) |->
         IF ~inside(i) THEN s[i]
         ELSE IF \E j \in 1..Len(spans) : spans[j][1] = i /\ spans[j][2] = 0
              THEN "unterminated"
         ELSE "cdata"]

Letters == {Chars("abcdefghijklmnopqrstuvwxyzABCDEFGHIJKLMNOPQRSTUVWXYZ")[i] : i \in 1..52}
NameStart == Letters \cup {"_", ":"}
NameChar == NameStart \cup {DigitChars[i] : i \in 1..10} \cup {"-", "."}
IsName(x) == x # <<>> /\ x[1] \in NameStart /\ \A i \in 1..Len(x) : x[i] \in NameChar

TextOk(x) ==
  \A i \in 1..Len(x) :
    /\ x[i] \notin {"<", ">", "\"", "'", "unterminated"}
    /\ x[i] = "&" => BeginsEntity(x, i)

Indices(s, Keep(_)) == SelectSeq([i \in 1..Len(s) |-> i], Keep)

\* The attributes of a start tag: name="value" pairs, each after whitespace.
AttrsOk(a) ==
  LET qs == Indices(a, LAMBDA i : a[i] = "\"")
      n == Len(qs) \div 2
      before(m) == SubSeq(a, IF m = 1 THEN 1 ELSE qs[2 * m - 2] + 1, qs[2 * m - 1] - 1)
      value(m) == SubSeq(a, qs[2 * m - 1] + 1, qs[2 * m] - 1)
      rest == SubSeq(a, IF n = 0 THEN 1 ELSE qs[2 * n] + 1, Len(a))
  IN  /\ Len(qs) % 2 = 0
      /\ \A m \in 1..n :
           /\ before(m) # <<>> /\ before(m)[1] \in Whitespace
           /\ Len(Trim(before(m))) >= 2
           /\ Trim(before(m))[Len(Trim(before(m)))] = "="
           /\ IsName(SubSeq(Trim(before(m)), 1, Len(Trim(before(m))) - 1))
           /\ TextOk(value(m))
      /\ Trim(rest) = <<>>

\* What a tag is, given the characters between its < and >.
TagKind(x) ==
  IF x = <<>> THEN "bad"
  ELSE IF x[1] = "?" THEN (IF Len(x) >= 2 /\ x[Len(x)] = "?" THEN "declaration" ELSE "bad")
  ELSE IF x[1] = "/" THEN (IF IsName(Trim(Tail(x))) THEN "end" ELSE "bad")
  ELSE LET body == IF x[Len(x)] = "/" THEN SubSeq(x, 1, Len(x) - 1) ELSE x
           ws == {i \in 1..Len(body) : body[i] \in Whitespace}
           nameEnd == IF ws = {} THEN Len(body) ELSE Min(ws) - 1
       IN  IF IsName(SubSeq(body, 1, nameEnd)) /\ AttrsOk(SubSeq(body, nameEnd + 1, Len(body)))
           THEN (IF x[Len(x)] = "/" THEN "empty" ELSE "start")
           ELSE "bad"

TagName(x) ==
  IF x[1] = "/" THEN Trim(Tail(x))
  ELSE LET ws == {i \in 1..Len(x) : x[i] \in Whitespace}
       IN  SubSeq(x, 1, IF ws = {} THEN Len(x) ELSE Min(ws) - 1)

WellFormed(doc) ==
  LET d == OutsideCData(doc)
      brs == Indices(d, LAMBDA i : d[i] \in {"<", ">"})
      n == Len(brs) \div 2
      tag(j) == SubSeq(d, brs[2 * j - 1] + 1, brs[2 * j] - 1)
      kind == [j \in 1..n |-> TagKind(tag(j))]
      \* the text after tag j; text(0) is what precedes the first tag
      text(j) == SubSeq(d, IF j = 0 THEN 1 ELSE brs[2 * j] + 1,
                           IF j = n THEN Len(d) ELSE brs[2 * j + 1] - 1)
      depthAfter == [j \in 0..n |->
                       Cardinality({i \in 1..j : kind[i] = "start"})
                       - Cardinality({i \in 1..j : kind[i] = "end"})]
  IN  /\ Len(brs) % 2 = 0
      /\ \A j \in 1..Len(brs) : d[brs[j]] = IF j % 2 = 1 THEN "<" ELSE ">"
      /\ \A j \in 1..n : kind[j] # "bad"
      /\ \A j \in 1..n : kind[j] = "declaration" => j = 1 /\ brs[1] = 1
      /\ \A j \in 0..n : depthAfter[j] >= 0
      /\ depthAfter[n] = 0
      /\ Cardinality({j \in 1..n : kind[j] \in {"start", "empty"} /\ depthAfter[j - 1] = 0}) = 1
      /\ \A j \in 1..n : kind[j] = "end" =>
           LET opens == {i \in 1..(j - 1) : kind[i] = "start" /\ depthAfter[i] = depthAfter[j - 1]}
           IN  opens # {} /\ TagName(tag(Max(opens))) = TagName(tag(j))
      /\ \A j \in 0..n : TextOk(text(j))
      /\ \A j \in 0..n : depthAfter[j] = 0 => Trim(text(j)) = <<>>

XmlDeclaration == Chars("<?xml version=\"1.0\" encoding=\"UTF-8\"?>")

\* C1: the returned document starts with the XML declaration and is
\* well-formed XML: elements closed in nesting order, no raw reserved
\* character in text or attribute values outside CDATA, and each
\* description's CDATA section ending only at the terminator the renderer
\* emits, whatever the fields of the items hold.
C1_WellFormed ==
  pc = "done" =>
    /\ StartsWith(out.s, XmlDeclaration)
    /\ WellFormed(out.s)
    /\ CDataSections(out.s) =
         [i \in 1..Len(items) |-> Description(items[i], getSourceName(items[i].source))]

Unparseable(ts) == NewDate(ts) = InvalidDate

\* C9: generateRssFeed throws for no item list with missing optional fields
\* or unparseable timestamps; it returns a complete document in which an
\* item's pubDate is the invalid-date sentinel exactly when its timestamp is
\* unparseable, every other item and the envelope being as they are without it.
C9_NeverThrows ==
  /\ pc # "thrown"
  /\ pc = "done" =>
       /\ EndsWith(out.s, ChannelClose)
       /\ Len(frags) = Len(items)
       /\ \A i \in 1..Len(items) :
            /\ Unparseable(items[i].timestamp) <=>
                 ElementText(frags[i], Chars("pubDate")) = Chars("Invalid Date")
            /\ frags[i] = generateItem(items[i]).s

====
